---- MODULE Spec2Model ----
(***************************************************************************)
(* Emotionagotchi: the creature-state transition function                  *)
(* (utils/creatureState.ts), the session kept by EmotionProvider           *)
(* (context/EmotionContext.tsx), the main page's action handler            *)
(* (app/page.tsx) and the localStorage gateway (services/storageService).  *)
(***************************************************************************)
EXTENDS Integers, Sequences, FiniteSets, TLC

\* ------------------------------------------------------------------ bounds

\* Inputs of the transition function are drawn from -Slack .. 100 + Slack.
Slack == 6

\* Number of log entries created in one run (identifiers handed out by uuidv4).
MaxActions == 2

\* Number of addLog calls of one run in which localStorage writes throw.
MaxFailures == 1

\* Largest safety score saved and loaded on its own.
MaxScore == 12

\* Number of milliseconds the clock advances in one run.
MaxNow == 2

\* Number of entries of a log list given to the history view.
MaxShown == 4

\* Largest timestamp of an entry given to the history view.
MaxStamp == 2

\* ------------------------------------------------------------------ types

Actions == {"expressed", "suppressed"}

Animations == {"idle", "grow", "curl", "celebrate"}

\* JavaScript's null.
Null == [null |-> TRUE]

\* ------------------------------------------------------------------ state

VARIABLES
    isInitialized,  \* EmotionProvider: useState(false)
    logs,           \* EmotionProvider: useState<EmotionLog[]>([])
    creatureState,  \* EmotionProvider: useState(getInitialState())
    safetyScore,    \* EmotionProvider: useState(0)
    rendered,       \* what the last render gave the consumers and addLog's closure
    inputValue,     \* Home: useState('')
    store,          \* localStorage: the three records
    lastError,      \* storageService: the last error
    nextId,         \* uuidv4(): the next fresh identifier
    failures,       \* the number of addLog calls in which a localStorage write has thrown
    now,            \* Date.now()
    op,             \* the last handler that ran, with its arguments
    calls,          \* the storageService calls the last handler issued, in order,
                    \* each with whether the localStorage call underneath threw
    start,          \* history: creature and score when the session became ready or was reset
    hist,           \* history: the actions accepted since
    cur,        \* harness: the CreatureState the transition function was last given / returned
    prev,       \* harness: the argument of the last call of calculateNewState
    act,        \* harness: the action of the last call ("none" before the first)
    trip        \* harness: the last value saved through the storageService and
                \* what the load right after it returned

harnessVars == <<cur, prev, act, trip>>

sessionVars ==
    <<isInitialized, logs, creatureState, safetyScore, rendered, inputValue,
      store, lastError, nextId, failures, now, op, calls, start, hist>>

vars == <<harnessVars, sessionVars>>

\* ------------------------------------------- utils/creatureState.ts

Max(a, b) == IF a >= b THEN a ELSE b

\* Mutant: the upper clamp is lost.
Min_noCeiling(a, b) == b

Min(a, b) == IF a <= b THEN a ELSE b

\* Mutant: expressed adds 3 and suppressed takes 5.
brightnessChange_swapped(action) == IF action = "expressed" THEN 3 ELSE -5

brightnessChange(action) == IF action = "expressed" THEN 5 ELSE -3

\* Mutant: suppressed shrinks by 2.
sizeChange_double(action) == IF action = "expressed" THEN 2 ELSE -2

sizeChange(action) == IF action = "expressed" THEN 2 ELSE -1

\* Mutant: a creature already at the ceiling is left alone by the arithmetic
\* and so an increment from 96..99 overshoots.
newBrightness_overshoot(currentState, action) ==
    Max(0, IF currentState.brightness >= 100
           THEN 100
           ELSE currentState.brightness + brightnessChange(action))

newBrightness(currentState, action) ==
    Max(0, Min(100, currentState.brightness + brightnessChange(action)))

\* Mutant: the lower clamp is lost.
newSize_noFloor(currentState, action) ==
    Min(100, currentState.size + sizeChange(action))

\* Mutant: the size saturates one short of the ceiling.
newSize_shortCeiling(currentState, action) ==
    Max(0, Min(99, currentState.size + sizeChange(action)))

newSize(currentState, action) ==
    Max(0, Min(100, currentState.size + sizeChange(action)))

\* Mutant: celebrate is chosen from 95 on.
animationFor_early(action, brightness) ==
    IF action = "expressed"
    THEN (IF brightness >= 95 THEN "celebrate" ELSE "grow")
    ELSE "curl"

animationFor(action, brightness) ==
    IF action = "expressed"
    THEN (IF brightness = 100 THEN "celebrate" ELSE "grow")
    ELSE "curl"

calculateNewState(currentState, action) ==
    [brightness |-> newBrightness(currentState, action),
     size       |-> newSize(currentState, action),
     animation  |-> animationFor(action, newBrightness(currentState, action))]

getInitialState == [brightness |-> 50, size |-> 50, animation |-> "idle"]

\* ------------------------------------------- services/storageService

STORAGE_KEYS == {"emotionagotchi_logs", "emotionagotchi_creature", "emotionagotchi_safety"}

\* localStorage.getItem of a key that was never set.
Absent == [kind |-> "absent"]

\* A stored text that is no JSON ('invalid json').
Garbage == [kind |-> "text"]

\* How a localStorage.setItem call ends: it returns, or it throws
\* QuotaExceededError, or it throws another error.
WriteOutcomes == {"ok", "quota", "error"}

\* How a localStorage.getItem call ends.
ReadOutcomes == {"ok", "throws"}

NoError == "none"

\* The decimal digits of a natural number, and the number of its digits.
RECURSIVE ToDigits(_)
ToDigits(n) == IF n < 10 THEN <<n>> ELSE Append(ToDigits(n \div 10), n % 10)

\* Mutant: the digits are read as octal.
RECURSIVE FromDigits_octal(_)
FromDigits_octal(digits) ==
    IF digits = <<>>
    THEN 0
    ELSE 8 * FromDigits_octal(SubSeq(digits, 1, Len(digits) - 1)) + digits[Len(digits)]

RECURSIVE FromDigits(_)
FromDigits(digits) ==
    IF digits = <<>>
    THEN 0
    ELSE 10 * FromDigits(SubSeq(digits, 1, Len(digits) - 1)) + digits[Len(digits)]

\* The JSON text of a number and the number of a JSON number text.
EncodeNumber(n) == [neg |-> n < 0, digits |-> ToDigits(IF n < 0 THEN 0 - n ELSE n)]

DecodeNumber(t) == IF t.neg THEN 0 - FromDigits(t.digits) ELSE FromDigits(t.digits)

\* The JSON text of a CreatureState and of an EmotionLog, and back.
EncodeCreature(c) ==
    [brightness |-> EncodeNumber(c.brightness),
     size       |-> EncodeNumber(c.size),
     animation  |-> c.animation]

DecodeCreature(t) ==
    [brightness |-> DecodeNumber(t.brightness),
     size       |-> DecodeNumber(t.size),
     animation  |-> t.animation]

EncodeLog(l) ==
    [id |-> l.id, text |-> l.text, action |-> l.action,
     timestamp |-> EncodeNumber(l.timestamp)]

DecodeLog(t) ==
    [id |-> t.id, text |-> t.text, action |-> t.action,
     timestamp |-> DecodeNumber(t.timestamp)]

\* JSON.stringify: the JSON text of a value of the given shape (an array of
\* logs, a creature object, a number).
Stringify(shape, value) ==
    [kind  |-> "json",
     shape |-> shape,
     body  |-> CASE shape = "array"  -> [i \in 1 .. Len(value) |-> EncodeLog(value[i])]
                 [] shape = "object" -> EncodeCreature(value)
                 [] shape = "number" -> EncodeNumber(value)]

\* JSON.parse: it throws on a text that is no JSON.
CanParse(text) == text.kind = "json"

\* Mutant: every failure gets the general message.
ErrorMessage_general(outcome) == "Failed to save data"

ErrorMessage(outcome) ==
    IF outcome = "quota"
    THEN "Storage full. Please clear some data."
    ELSE "Failed to save data"

\* Mutant: a failed save does not keep its error for getLastError.
Save_forgetsError(gw, key, shape, value, outcome) ==
    IF outcome = "ok"
    THEN [store     |-> [gw.store EXCEPT ![key] = Stringify(shape, value)],
          lastError |-> gw.lastError,
          result    |-> [success |-> TRUE, error |-> NoError]]
    ELSE [store     |-> gw.store,
          lastError |-> gw.lastError,
          result    |-> [success |-> FALSE, error |-> ErrorMessage(outcome)]]

\* Mutant: the error of the first failure is kept, later failures do not
\* replace it.
Save_firstErrorKept(gw, key, shape, value, outcome) ==
    IF outcome = "ok"
    THEN [store     |-> [gw.store EXCEPT ![key] = Stringify(shape, value)],
          lastError |-> gw.lastError,
          result    |-> [success |-> TRUE, error |-> NoError]]
    ELSE [store     |-> gw.store,
          lastError |-> IF gw.lastError = NoError THEN ErrorMessage(outcome) ELSE gw.lastError,
          result    |-> [success |-> FALSE, error |-> ErrorMessage(outcome)]]

\* Mutant: the three records are kept in one stored object, a save writes the
\* object with its own record alone.
Save_oneObject(gw, key, shape, value, outcome) ==
    IF outcome = "ok"
    THEN [store     |-> [k \in STORAGE_KEYS |->
                            IF k = key THEN Stringify(shape, value) ELSE Absent],
          lastError |-> gw.lastError,
          result    |-> [success |-> TRUE, error |-> NoError]]
    ELSE [store     |-> gw.store,
          lastError |-> ErrorMessage(outcome),
          result    |-> [success |-> FALSE, error |-> ErrorMessage(outcome)]]

\* A save: the write of the serialized value under the key; a throw of the
\* write is caught, reported in the result and kept as the last error.
Save(gw, key, shape, value, outcome) ==
    IF outcome = "ok"
    THEN [store     |-> [gw.store EXCEPT ![key] = Stringify(shape, value)],
          lastError |-> gw.lastError,
          result    |-> [success |-> TRUE, error |-> NoError]]
    ELSE [store     |-> gw.store,
          lastError |-> ErrorMessage(outcome),
          result    |-> [success |-> FALSE, error |-> ErrorMessage(outcome)]]

saveLogs(gw, value, outcome) == Save(gw, "emotionagotchi_logs", "array", value, outcome)

saveCreatureState(gw, value, outcome) ==
    Save(gw, "emotionagotchi_creature", "object", value, outcome)

saveSafetyScore(gw, value, outcome) ==
    Save(gw, "emotionagotchi_safety", "number", value, outcome)

\* Mutant: whatever parses is returned as the logs, array or not.
loadLogs_noShapeCheck(st, read) ==
    LET text == st["emotionagotchi_logs"] IN
    IF read # "ok" THEN <<>>
    ELSE IF text.kind = "absent" THEN <<>>
    ELSE IF ~CanParse(text) THEN <<>>
    ELSE IF text.shape # "array" THEN <<text.body>>
    ELSE [i \in 1 .. Len(text.body) |-> DecodeLog(text.body[i])]

\* A load: the safe default when the read throws, the record is absent, the
\* text is no JSON or the value has the wrong shape.
loadLogs(st, read) ==
    LET text == st["emotionagotchi_logs"] IN
    IF read # "ok" THEN <<>>
    ELSE IF text.kind = "absent" THEN <<>>
    ELSE IF ~CanParse(text) THEN <<>>
    ELSE IF text.shape # "array" THEN <<>>
    ELSE [i \in 1 .. Len(text.body) |-> DecodeLog(text.body[i])]

\* Mutant: the three records are parsed together, one bad text fails them all.
loadCreatureState_sharedParse(st, read) ==
    LET text == st["emotionagotchi_creature"] IN
    IF read # "ok" THEN Null
    ELSE IF \E key \in STORAGE_KEYS : st[key].kind = "text" THEN Null
    ELSE IF text.kind = "absent" THEN Null
    ELSE IF text.shape # "object" THEN Null
    ELSE IF ~({"brightness", "size", "animation"} \subseteq DOMAIN text.body) THEN Null
    ELSE DecodeCreature(text.body)

loadCreatureState(st, read) ==
    LET text == st["emotionagotchi_creature"] IN
    IF read # "ok" THEN Null
    ELSE IF text.kind = "absent" THEN Null
    ELSE IF ~CanParse(text) THEN Null
    ELSE IF text.shape # "object" THEN Null
    ELSE IF ~({"brightness", "size", "animation"} \subseteq DOMAIN text.body) THEN Null
    ELSE DecodeCreature(text.body)

loadSafetyScore(st, read) ==
    LET text == st["emotionagotchi_safety"] IN
    IF read # "ok" THEN 0
    ELSE IF text.kind = "absent" THEN 0
    ELSE IF ~CanParse(text) THEN 0
    ELSE IF text.shape # "number" THEN 0
    ELSE DecodeNumber(text.body)

\* Mutant: clearAll leaves the score record.
clearAllRemoving_keepsSafety(st, removed) ==
    [key \in STORAGE_KEYS |->
        IF key \in removed \ {"emotionagotchi_safety"} THEN Absent ELSE st[key]]

\* clearAll when localStorage.removeItem removes the records of the keys in
\* removed and throws for the others: the throw is swallowed.
clearAllRemoving(st, removed) ==
    [key \in STORAGE_KEYS |-> IF key \in removed THEN Absent ELSE st[key]]

\* clearAll on storage whose removeItem works.
clearAll(st) == clearAllRemoving(st, STORAGE_KEYS)

\* ------------------------------------------- context/EmotionContext.tsx

\* Mutant: addLog is memoised once and keeps the state of the first render.
Render_stale(newLogs, newCreatureState, newSafetyScore, newIsInitialized) ==
    rendered' = [rendered EXCEPT !.children = newIsInitialized]

\* Mutant: the provider renders its children before the state is loaded.
Render_ungated(newLogs, newCreatureState, newSafetyScore, newIsInitialized) ==
    rendered' = [logs          |-> newLogs,
                 creatureState |-> newCreatureState,
                 safetyScore   |-> newSafetyScore,
                 children      |-> TRUE]

\* A render of the provider: the context value, and the closure of addLog,
\* carry the state of that render; the children (the consumers) are rendered
\* only once the state is loaded.
Render(newLogs, newCreatureState, newSafetyScore, newIsInitialized) ==
    rendered' = [logs          |-> newLogs,
                 creatureState |-> newCreatureState,
                 safetyScore   |-> newSafetyScore,
                 children      |-> newIsInitialized]

\* A call of the storageService, as the handlers' history keeps it.
Call(name, threw) == [name |-> name, threw |-> threw]

NoOp == [name |-> "none", action |-> "none", accepted |-> FALSE, reads |-> <<>>]

\* Mutant: one record that does not load makes the session start from all defaults.
InitializeReading_allOrNothing(reads) ==
    LET ok == /\ loadCreatureState(store, reads[2]) # Null
              /\ store["emotionagotchi_logs"].kind = "json"
              /\ store["emotionagotchi_safety"].kind = "json"
    IN  /\ ~isInitialized
        /\ logs' = (IF ok THEN loadLogs(store, reads[1]) ELSE <<>>)
        /\ creatureState' = (IF ok THEN loadCreatureState(store, reads[2]) ELSE getInitialState)
        /\ safetyScore' = (IF ok THEN loadSafetyScore(store, reads[3]) ELSE 0)
        /\ isInitialized' = TRUE
        /\ Render(logs', creatureState', safetyScore', TRUE)
        /\ op' = [NoOp EXCEPT !.name = "initialize", !.reads = reads]
        /\ calls' = <<Call("loadLogs", reads[1] # "ok"),
                   Call("loadCreatureState", reads[2] # "ok"),
                   Call("loadSafetyScore", reads[3] # "ok")>>
        /\ start' = [creatureState |-> creatureState', safetyScore |-> safetyScore']
        /\ hist' = <<>>
        /\ UNCHANGED <<inputValue, store, lastError, nextId, failures, now>>

\* Mutant: a read that throws ends the mount effect before it marks the
\* session ready.
InitializeReading_propagates(reads) ==
    /\ ~isInitialized
    /\ IF \E i \in 1 .. 3 : reads[i] # "ok"
       THEN /\ op' = [NoOp EXCEPT !.name = "initialize", !.reads = reads]
            /\ calls' = <<Call("loadLogs", reads[1] # "ok")>>
            /\ UNCHANGED <<isInitialized, logs, creatureState, safetyScore, rendered,
                           start, hist>>
       ELSE /\ logs' = loadLogs(store, "ok")
            /\ creatureState' =
                   (IF loadCreatureState(store, "ok") = Null
                    THEN getInitialState
                    ELSE loadCreatureState(store, "ok"))
            /\ safetyScore' = loadSafetyScore(store, "ok")
            /\ isInitialized' = TRUE
            /\ Render(logs', creatureState', safetyScore', TRUE)
            /\ op' = [NoOp EXCEPT !.name = "initialize", !.reads = reads]
            /\ calls' = <<Call("loadLogs", FALSE), Call("loadCreatureState", FALSE),
                          Call("loadSafetyScore", FALSE)>>
            /\ start' = [creatureState |-> creatureState', safetyScore |-> safetyScore']
            /\ hist' = <<>>
    /\ UNCHANGED <<inputValue, store, lastError, nextId, failures, now>>

\* The mount effect: loads the three records and marks the session ready.
\* reads[i] is how the getItem of the i-th load ends.
InitializeReading(reads) ==
    /\ ~isInitialized
    /\ logs' = loadLogs(store, reads[1])
    /\ creatureState' =
           (IF loadCreatureState(store, reads[2]) = Null
            THEN getInitialState
            ELSE loadCreatureState(store, reads[2]))
    /\ safetyScore' = loadSafetyScore(store, reads[3])
    /\ isInitialized' = TRUE
    /\ Render(logs', creatureState', safetyScore', TRUE)
    /\ op' = [NoOp EXCEPT !.name = "initialize", !.reads = reads]
    /\ calls' = <<Call("loadLogs", reads[1] # "ok"),
                   Call("loadCreatureState", reads[2] # "ok"),
                   Call("loadSafetyScore", reads[3] # "ok")>>
    /\ start' = [creatureState |-> creatureState', safetyScore |-> safetyScore']
    /\ hist' = <<>>
    /\ UNCHANGED <<inputValue, store, lastError, nextId, failures, now>>

\* The mount effect on a browser whose localStorage can be read.
Initialize == InitializeReading(<<"ok", "ok", "ok">>)

\* Mutant: the identifier is the position of the entry in the list.
newLog_positionId(id, text, action, timestamp) ==
    [id |-> Len(logs) + 1, text |-> text, action |-> action, timestamp |-> timestamp]

newLog(id, text, action, timestamp) ==
    [id |-> id, text |-> text, action |-> action, timestamp |-> timestamp]

\* Mutant: the new entry is put first.
updatedLogs_prepend(oldLogs, log) == <<log>> \o oldLogs

updatedLogs(oldLogs, log) == Append(oldLogs, log)

\* Mutant: every action counts.
newSafetyScore_always(score, action) == score + 1

newSafetyScore(score, action) ==
    IF action = "expressed" THEN score + 1 ELSE score

\* Mutant: the transition starts from the default snapshot.
newCreatureState_fromDefault(current, action) ==
    calculateNewState(getInitialState, action)

newCreatureState(current, action) == calculateNewState(current, action)

\* Mutant: the creature state is not saved.
Persist_skipCreature(gw, ls, cs, score, outcomes) ==
    LET g1 == saveLogs(gw, ls, outcomes[1])
        g3 == saveSafetyScore(g1, score, outcomes[3])
    IN  [store     |-> g3.store,
         lastError |-> g3.lastError,
         calls     |-> <<Call("saveLogs", ~g1.result.success),
                         Call("saveSafetyScore", ~g3.result.success)>>]

\* Mutant: the score is saved first and the logs last.
Persist_reordered(gw, ls, cs, score, outcomes) ==
    LET g1 == saveSafetyScore(gw, score, outcomes[1])
        g2 == saveCreatureState(g1, cs, outcomes[2])
        g3 == saveLogs(g2, ls, outcomes[3])
    IN  [store     |-> g3.store,
         lastError |-> g3.lastError,
         calls     |-> <<Call("saveSafetyScore", ~g1.result.success),
                         Call("saveCreatureState", ~g2.result.success),
                         Call("saveLogs", ~g3.result.success)>>]

\* Mutant: a save that fails ends addLog, the saves after it are not issued.
Persist_stopOnFailure(gw, ls, cs, score, outcomes) ==
    LET g1 == saveLogs(gw, ls, outcomes[1])
        g2 == saveCreatureState(g1, cs, outcomes[2])
        g3 == saveSafetyScore(g2, score, outcomes[3])
    IN  IF ~g1.result.success
        THEN [store |-> g1.store, lastError |-> g1.lastError,
              calls |-> <<Call("saveLogs", TRUE)>>]
        ELSE IF ~g2.result.success
        THEN [store |-> g2.store, lastError |-> g2.lastError,
              calls |-> <<Call("saveLogs", FALSE), Call("saveCreatureState", TRUE)>>]
        ELSE [store |-> g3.store, lastError |-> g3.lastError,
              calls |-> <<Call("saveLogs", FALSE), Call("saveCreatureState", FALSE),
                          Call("saveSafetyScore", ~g3.result.success)>>]

\* The three saves of addLog: outcomes[i] is how the write of the i-th save
\* ends. The result is the gateway afterwards and the calls issued.
Persist(gw, ls, cs, score, outcomes) ==
    LET g1 == saveLogs(gw, ls, outcomes[1])
        g2 == saveCreatureState(g1, cs, outcomes[2])
        g3 == saveSafetyScore(g2, score, outcomes[3])
    IN  [store     |-> g3.store,
         lastError |-> g3.lastError,
         calls     |-> <<Call("saveLogs", ~g1.result.success),
                         Call("saveCreatureState", ~g2.result.success),
                         Call("saveSafetyScore", ~g3.result.success)>>]

\* Mutant: when a save fails, addLog puts the state back as it was.
AddLog_rollback(text, action) ==
    \E outcomes \in [1 .. 3 -> WriteOutcomes] :
        LET thrown == IF \E i \in 1 .. 3 : outcomes[i] # "ok" THEN 1 ELSE 0
            log    == newLog(nextId, text, action, now)
            ls     == updatedLogs(rendered.logs, log)
            cs     == newCreatureState(rendered.creatureState, action)
            score  == newSafetyScore(rendered.safetyScore, action)
            saved  == Persist([store |-> store, lastError |-> lastError],
                              ls, cs, score, outcomes)
        IN  /\ failures + thrown <= MaxFailures
            /\ failures' = failures + thrown
            /\ logs' = (IF thrown = 1 THEN rendered.logs ELSE ls)
            /\ creatureState' = (IF thrown = 1 THEN rendered.creatureState ELSE cs)
            /\ safetyScore' = (IF thrown = 1 THEN rendered.safetyScore ELSE score)
            /\ store' = saved.store
            /\ lastError' = saved.lastError
            /\ calls' = saved.calls
            /\ nextId' = nextId + 1

\* Mutant: the new score is counted from the stored score, not from the score
\* in memory.
AddLog_fromStoredScore(text, action) ==
    \E outcomes \in [1 .. 3 -> WriteOutcomes] :
        LET thrown == IF \E i \in 1 .. 3 : outcomes[i] # "ok" THEN 1 ELSE 0
            log    == newLog(nextId, text, action, now)
            ls     == updatedLogs(rendered.logs, log)
            cs     == newCreatureState(rendered.creatureState, action)
            score  == newSafetyScore(loadSafetyScore(store, "ok"), action)
            saved  == Persist([store |-> store, lastError |-> lastError],
                              ls, cs, score, outcomes)
        IN  /\ failures + thrown <= MaxFailures
            /\ failures' = failures + thrown
            /\ logs' = ls
            /\ creatureState' = cs
            /\ safetyScore' = score
            /\ store' = saved.store
            /\ lastError' = saved.lastError
            /\ calls' = saved.calls
            /\ nextId' = nextId + 1

\* addLog of the last render: it reads the logs, creature state and score of
\* its closure, sets the three states and issues the three saves.
AddLog(text, action) ==
    \E outcomes \in [1 .. 3 -> WriteOutcomes] :
        LET thrown == IF \E i \in 1 .. 3 : outcomes[i] # "ok" THEN 1 ELSE 0
            log    == newLog(nextId, text, action, now)
            ls     == updatedLogs(rendered.logs, log)
            cs     == newCreatureState(rendered.creatureState, action)
            score  == newSafetyScore(rendered.safetyScore, action)
            saved  == Persist([store |-> store, lastError |-> lastError],
                              ls, cs, score, outcomes)
        IN  /\ failures + thrown <= MaxFailures
            /\ failures' = failures + thrown
            /\ logs' = ls
            /\ creatureState' = cs
            /\ safetyScore' = score
            /\ store' = saved.store
            /\ lastError' = saved.lastError
            /\ calls' = saved.calls
            /\ nextId' = nextId + 1

\* Mutant: the reset forgets the persisted records.
ClearLogs_memoryOnly ==
    /\ isInitialized
    /\ logs' = <<>>
    /\ creatureState' = getInitialState
    /\ safetyScore' = 0
    /\ Render(logs', creatureState', safetyScore', isInitialized)
    /\ op' = [NoOp EXCEPT !.name = "clearLogs"]
    /\ calls' = <<>>
    /\ start' = [creatureState |-> creatureState', safetyScore |-> safetyScore']
    /\ hist' = <<>>
    /\ UNCHANGED <<isInitialized, inputValue, store, lastError, nextId, failures, now>>

\* Mutant: the reset empties the logs and keeps the score.
ClearLogs_keepsScore ==
    /\ isInitialized
    /\ logs' = <<>>
    /\ creatureState' = getInitialState
    /\ safetyScore' = safetyScore
    /\ store' = clearAll(store)
    /\ Render(logs', creatureState', safetyScore', isInitialized)
    /\ op' = [NoOp EXCEPT !.name = "clearLogs"]
    /\ calls' = <<Call("clearAll", FALSE)>>
    /\ start' = [creatureState |-> creatureState', safetyScore |-> safetyScore']
    /\ hist' = <<>>
    /\ UNCHANGED <<isInitialized, inputValue, lastError, nextId, failures, now>>

\* clearLogs: a consumer's reset.
ClearLogs ==
    /\ isInitialized
    /\ logs' = <<>>
    /\ creatureState' = getInitialState
    /\ safetyScore' = 0
    /\ store' = clearAll(store)
    /\ Render(logs', creatureState', safetyScore', isInitialized)
    /\ op' = [NoOp EXCEPT !.name = "clearLogs"]
    /\ calls' = <<Call("clearAll", FALSE)>>
    /\ start' = [creatureState |-> creatureState', safetyScore |-> safetyScore']
    /\ hist' = <<>>
    /\ UNCHANGED <<isInitialized, inputValue, lastError, nextId, failures, now>>

\* createContext(undefined): what useContext gives with no provider above.
Undefined == [undefined |-> TRUE]

\* useContext(EmotionContext) in a component: the value of the provider's last
\* render when the component is one of the provider's children, the default of
\* createContext otherwise.
useContext(provider) ==
    IF provider
    THEN [logs          |-> rendered.logs,
          creatureState |-> rendered.creatureState,
          safetyScore   |-> rendered.safetyScore]
    ELSE Undefined

\* Mutant: without a provider the hook returns a default session.
useEmotion_default(context) ==
    IF context = Undefined
    THEN [threw |-> FALSE,
          value |-> [logs |-> <<>>, creatureState |-> getInitialState, safetyScore |-> 0]]
    ELSE [threw |-> FALSE, value |-> context]

\* useEmotion: throws when the context is undefined, returns it otherwise.
useEmotion(context) ==
    IF context = Undefined
    THEN [threw |-> TRUE, error |-> "useEmotion must be used within an EmotionProvider"]
    ELSE [threw |-> FALSE, value |-> context]

\* ------------------------------------------- app/page.tsx, EmotionInput.tsx

maxLength == 100

\* Strings are sequences of characters.
Repeat(char, n) == [i \in 1 .. n |-> char]

\* The values typed into the textarea: nothing, a blank, a letter after a
\* blank, the longest text the input takes, and a text one character too long.
TypedValues ==
    {<<>>, <<" ">>, <<" ", "a">>, Repeat("a", maxLength), Repeat("a", maxLength + 1)}

RECURSIVE TrimStart(_)
TrimStart(text) ==
    IF text # <<>> /\ Head(text) = " " THEN TrimStart(Tail(text)) ELSE text

RECURSIVE TrimEnd(_)
TrimEnd(text) ==
    IF text # <<>> /\ text[Len(text)] = " "
    THEN TrimEnd(SubSeq(text, 1, Len(text) - 1))
    ELSE text

\* Mutant: the text is taken as typed.
Trim_asTyped(text) == text

\* String.prototype.trim
Trim(text) == TrimEnd(TrimStart(text))

\* Mutant: every new value reaches the page.
HandleChange_unbounded(newValue) ==
    /\ isInitialized
    /\ inputValue' = newValue
    /\ op' = [NoOp EXCEPT !.name = "handleChange", !.accepted = TRUE]
    /\ calls' = <<>>
    /\ UNCHANGED <<isInitialized, logs, creatureState, safetyScore, rendered,
                   store, lastError, nextId, failures, now, start, hist>>

\* EmotionInput.handleChange: the new value reaches the page unless it is
\* longer than maxLength.
HandleChange(newValue) ==
    /\ isInitialized
    /\ inputValue' = (IF Len(newValue) <= maxLength THEN newValue ELSE inputValue)
    /\ op' = [NoOp EXCEPT !.name = "handleChange",
                          !.accepted = (Len(newValue) <= maxLength)]
    /\ calls' = <<>>
    /\ UNCHANGED <<isInitialized, logs, creatureState, safetyScore, rendered,
                   store, lastError, nextId, failures, now, start, hist>>

\* Mutant: the input keeps the submitted text.
HandleAction_keepsInput(action) ==
    /\ isInitialized
    /\ IF Len(Trim(inputValue)) = 0
       THEN /\ op' = [NoOp EXCEPT !.name = "handleAction", !.action = action]
            /\ calls' = <<>>
            /\ UNCHANGED <<isInitialized, logs, creatureState, safetyScore, rendered,
                           inputValue, store, lastError, nextId, failures, now,
                           start, hist>>
       ELSE /\ nextId <= MaxActions
            /\ AddLog(inputValue, action)
            /\ inputValue' = inputValue
            /\ Render(logs', creatureState', safetyScore', isInitialized)
            /\ op' = [NoOp EXCEPT !.name = "handleAction", !.action = action,
                                  !.accepted = TRUE]
            /\ hist' = Append(hist, action)
            /\ UNCHANGED <<isInitialized, now, start>>

\* Home.handleAction: a click on Express or Suppress.
HandleAction(action) ==
    /\ isInitialized
    /\ IF Len(Trim(inputValue)) = 0
       THEN /\ op' = [NoOp EXCEPT !.name = "handleAction", !.action = action]
            /\ calls' = <<>>
            /\ UNCHANGED <<isInitialized, logs, creatureState, safetyScore, rendered,
                           inputValue, store, lastError, nextId, failures, now,
                           start, hist>>
       ELSE /\ nextId <= MaxActions
            /\ AddLog(inputValue, action)
            /\ inputValue' = <<>>
            /\ Render(logs', creatureState', safetyScore', isInitialized)
            /\ op' = [NoOp EXCEPT !.name = "handleAction", !.action = action,
                                  !.accepted = TRUE]
            /\ hist' = Append(hist, action)
            /\ UNCHANGED <<isInitialized, now, start>>

\* ------------------------------------------- components/LogHistory/LogHistory.tsx

\* Mutant: the comparator puts the oldest entry first.
compare_oldestFirst(a, b) == a.timestamp - b.timestamp

\* The comparator given to sort: (a, b) => b.timestamp - a.timestamp.
compare(a, b) == b.timestamp - a.timestamp

\* Array.prototype.sort is stable: an entry goes behind the entries that the
\* comparator does not put after it.
Insert(sorted, log) ==
    LET k == Cardinality({i \in 1 .. Len(sorted) : compare(sorted[i], log) <= 0})
    IN  SubSeq(sorted, 1, k) \o <<log>> \o SubSeq(sorted, k + 1, Len(sorted))

RECURSIVE Sort(_)
Sort(list) ==
    IF list = <<>>
    THEN <<>>
    ELSE Insert(Sort(SubSeq(list, 1, Len(list) - 1)), list[Len(list)])

\* LogHistory: the empty state for no logs, else the items of a sorted copy;
\* props is the array the component was given, as it is after the render.
LogHistory(props) ==
    [emptyState |-> Len(props) = 0,
     sortedLogs |-> Sort(props),
     props      |-> props]

\* ------------------------------------------- the environment

\* The page is loaded again: a new session with the states of useState.
Reload ==
    /\ isInitialized
    /\ isInitialized' = FALSE
    /\ logs' = <<>>
    /\ creatureState' = getInitialState
    /\ safetyScore' = 0
    /\ Render(logs', creatureState', safetyScore', FALSE)
    /\ inputValue' = <<>>
    /\ op' = [NoOp EXCEPT !.name = "reload"]
    /\ calls' = <<>>
    /\ start' = [creatureState |-> getInitialState, safetyScore |-> 0]
    /\ hist' = <<>>
    /\ UNCHANGED <<store, lastError, nextId, failures, now>>

\* The session before its mount effect, on a browser that holds the records st.
SessionStart(st) ==
    /\ isInitialized = FALSE
    /\ logs = <<>>
    /\ creatureState = getInitialState
    /\ safetyScore = 0
    /\ rendered = [logs |-> <<>>, creatureState |-> getInitialState, safetyScore |-> 0,
                   children |-> FALSE]
    /\ inputValue = <<>>
    /\ store = st
    /\ lastError = NoError
    /\ nextId = 1
    /\ failures = 0
    /\ now = 0
    /\ op = NoOp
    /\ calls = <<>>
    /\ start = [creatureState |-> getInitialState, safetyScore |-> 0]
    /\ hist = <<>>

\* The session before its mount effect, on a browser with nothing stored.
SessionInit == SessionStart([key \in STORAGE_KEYS |-> Absent])

\* No value has been saved and loaded yet.
NoTrip == [kind |-> "none", saved |-> Null, loaded |-> Null]

HarnessInit ==
    /\ cur = getInitialState
    /\ prev = getInitialState
    /\ act = "none"
    /\ trip = NoTrip

Init == SessionInit /\ HarnessInit

Next ==
    \/ Initialize /\ UNCHANGED harnessVars
    \/ (\E newValue \in TypedValues : HandleChange(newValue)) /\ UNCHANGED harnessVars
    \/ (\E action \in Actions : HandleAction(action)) /\ UNCHANGED harnessVars
    \/ ClearLogs /\ UNCHANGED harnessVars
    \/ Reload /\ UNCHANGED harnessVars

Spec == Init /\ [][Next]_vars

\* Date.now(): time passes between two events.
Tick ==
    /\ now < MaxNow
    /\ now' = now + 1
    /\ UNCHANGED <<isInitialized, logs, creatureState, safetyScore, rendered, inputValue,
                   store, lastError, nextId, failures, op, calls, start, hist>>

\* The session with its clock running, on storage that works.
ClockNext ==
    \/ Initialize /\ UNCHANGED harnessVars
    \/ HandleChange(Repeat("a", maxLength)) /\ UNCHANGED harnessVars
    \/ (\E action \in Actions : HandleAction(action))
           /\ failures' = failures /\ UNCHANGED harnessVars
    \/ ClearLogs /\ UNCHANGED harnessVars
    \/ Reload /\ UNCHANGED harnessVars
    \/ Tick /\ UNCHANGED harnessVars

SpecClock == Init /\ [][ClockNext]_vars

\* ------------------------------------------- sessions on what a browser holds

\* Records of an earlier session, as storageService.test.ts and
\* EmotionContext.test.tsx put them into localStorage.
StoredLog ==
    [id |-> 0, text |-> <<"a">>, action |-> "expressed", timestamp |-> 907]

StoredCreature == [brightness |-> 60, size |-> 55, animation |-> "idle"]

StoredScore == 5

\* Records with the fields and types of a saved record whose numbers no
\* session has produced: localStorage is written by whoever has the browser.
OutOfRangeCreature == [brightness |-> 150, size |-> 0 - 20, animation |-> "idle"]

NegativeScore == 0 - 3

StoredCreatures == {StoredCreature, OutOfRangeCreature}

StoredScores == {StoredScore, NegativeScore}

\* A JSON text whose value is an object of other fields ('{"not": "an array"}').
OtherObject == [kind |-> "json", shape |-> "object", body |-> [not |-> "expected"]]

StoredLogsTexts == {Absent, Garbage, OtherObject, Stringify("array", <<StoredLog>>)}

StoredCreatureTexts ==
    {Absent, Garbage, OtherObject} \cup {Stringify("object", c) : c \in StoredCreatures}

StoredSafetyTexts ==
    {Absent, Garbage, OtherObject} \cup {Stringify("number", n) : n \in StoredScores}

\* A session starts on any combination of such records.
LoadInit ==
    /\ \E l \in StoredLogsTexts, c \in StoredCreatureTexts, n \in StoredSafetyTexts :
           SessionStart([key \in STORAGE_KEYS |->
                            CASE key = "emotionagotchi_logs"     -> l
                              [] key = "emotionagotchi_creature" -> c
                              [] key = "emotionagotchi_safety"   -> n])
    /\ HarnessInit

\* The mount effect, each read returning or throwing, and page reloads.
LoadNext ==
    \/ (\E reads \in [1 .. 3 -> ReadOutcomes] : InitializeReading(reads))
           /\ UNCHANGED harnessVars
    \/ Reload /\ UNCHANGED harnessVars

SpecLoad == LoadInit /\ [][LoadNext]_vars

\* React runs the effect of a mounted component after the commit: the mount
\* effect is not put off for ever.
MountEffect ==
    (\E reads \in [1 .. 3 -> ReadOutcomes] : InitializeReading(reads)) /\ UNCHANGED harnessVars

SpecMount == LoadInit /\ [][LoadNext]_vars /\ WF_vars(MountEffect)

\* ------------------------------------------- sessions resumed on stored records

\* A record with the fields and types of a saved creature state whose
\* brightness is below the range.
DimCreature == [brightness |-> 0 - 20, size |-> 50, animation |-> "curl"]

ResumeCreatureTexts ==
    {Absent} \cup {Stringify("object", c) : c \in StoredCreatures \cup {DimCreature}}

\* A session starts on stored logs, any of the creature records and a stored
\* score, or on nothing.
ResumeInit ==
    /\ \E l \in {Absent, Stringify("array", <<StoredLog>>)},
          c \in ResumeCreatureTexts,
          n \in {Absent, Stringify("number", StoredScore)} :
           SessionStart([key \in STORAGE_KEYS |->
                            CASE key = "emotionagotchi_logs"     -> l
                              [] key = "emotionagotchi_creature" -> c
                              [] key = "emotionagotchi_safety"   -> n])
    /\ HarnessInit

\* The session that goes on from what it loaded, on storage that works.
ResumeNext ==
    \/ Initialize /\ UNCHANGED harnessVars
    \/ HandleChange(<<"a">>) /\ UNCHANGED harnessVars
    \/ (\E action \in Actions : HandleAction(action))
           /\ failures' = failures /\ UNCHANGED harnessVars
    \/ ClearLogs /\ UNCHANGED harnessVars
    \/ Reload /\ UNCHANGED harnessVars

SpecResume == ResumeInit /\ [][ResumeNext]_vars

\* ------------------------------------------- components that call useEmotion

\* A component that calls useEmotion is rendered: below the EmotionProvider,
\* which renders its children only once the state is loaded, or in a tree with
\* no provider (renderHook(() => useEmotion())).
RenderHook(provider) ==
    /\ provider => rendered.children
    /\ trip' = [kind     |-> "hook",
                provider |-> provider,
                result   |-> useEmotion(useContext(provider))]
    /\ UNCHANGED <<cur, prev, act>>
    /\ UNCHANGED sessionVars

HookNext ==
    \/ (\E reads \in [1 .. 3 -> ReadOutcomes] : InitializeReading(reads))
           /\ UNCHANGED harnessVars
    \/ Reload /\ UNCHANGED harnessVars
    \/ \E provider \in BOOLEAN : RenderHook(provider)

SpecHook == LoadInit /\ [][HookNext]_vars

\* ------------------------------------------- harness of the history view

\* Lists of n entries of distinct identifiers with any timestamps up to
\* MaxStamp, in any order.
HistoryLogsOf(n) ==
    {[i \in 1 .. n |->
         newLog(i, <<"a">>, IF i % 2 = 0 THEN "expressed" ELSE "suppressed", stamps[i])] :
     stamps \in [1 .. n -> 0 .. MaxStamp]}

\* The log lists the view is given: up to MaxShown entries.
HistoryLogs == UNION {HistoryLogsOf(n) : n \in 0 .. MaxShown}

\* render(<LogHistory logs={logs} />)
ShowHistory(list) ==
    /\ trip' = [kind |-> "history", logs |-> list, view |-> LogHistory(list)]
    /\ UNCHANGED <<cur, prev, act>>
    /\ UNCHANGED sessionVars

HistoryNext == \E list \in HistoryLogs : ShowHistory(list)

SpecHistory == Init /\ [][HistoryNext]_vars

\* ------------------------------------------- harness of the pure function

FnInputs ==
    [brightness : (0 - Slack) .. (100 + Slack),
     size       : (0 - Slack) .. (100 + Slack),
     animation  : Animations]

\* One call of calculateNewState on the current snapshot.
ApplyAction(action) ==
    /\ prev' = cur
    /\ act' = action
    /\ cur' = calculateNewState(cur, action)
    /\ UNCHANGED <<trip, sessionVars>>

FnNext == \E action \in Actions : ApplyAction(action)

\* Any finite sequence of actions from the default snapshot.
SeqInit == SessionInit /\ HarnessInit

SpecSeq == SeqInit /\ [][FnNext]_vars

\* Any finite sequence of actions from any integer snapshot of the input range.
FnInit ==
    /\ SessionInit
    /\ cur \in FnInputs
    /\ prev = cur
    /\ act = "none"
    /\ trip = NoTrip

SpecFn == FnInit /\ [][FnNext]_vars

\* ------------------------------------------- harness of the storageService

\* A second log, of the longest text the input takes.
OtherLog ==
    [id |-> 1, text |-> Repeat("a", maxLength), action |-> "suppressed", timestamp |-> 1024]

\* The values the tests save: lists of logs, creature states, scores.
GatewayLogs ==
    {<<>>, <<StoredLog>>, <<OtherLog>>, <<StoredLog, OtherLog>>, <<OtherLog, StoredLog>>}

GatewayCreatures == [brightness : {0, 50, 100}, size : {0, 55, 100}, animation : Animations]

GatewayScores == 0 .. MaxScore

\* A save on working storage and the load right after it.
SaveThenLoad(kind, value) ==
    LET gw    == [store |-> store, lastError |-> lastError]
        saved == CASE kind = "logs"     -> saveLogs(gw, value, "ok")
                   [] kind = "creature" -> saveCreatureState(gw, value, "ok")
                   [] kind = "safety"   -> saveSafetyScore(gw, value, "ok")
        back  == CASE kind = "logs"     -> loadLogs(saved.store, "ok")
                   [] kind = "creature" -> loadCreatureState(saved.store, "ok")
                   [] kind = "safety"   -> loadSafetyScore(saved.store, "ok")
    IN  /\ store' = saved.store
        /\ lastError' = saved.lastError
        /\ trip' = [kind |-> kind, saved |-> value, loaded |-> back]
        /\ UNCHANGED <<cur, prev, act>>
        /\ UNCHANGED <<isInitialized, logs, creatureState, safetyScore, rendered,
                       inputValue, nextId, failures, now, op, calls, start, hist>>

GatewayNext ==
    \/ \E value \in GatewayLogs : SaveThenLoad("logs", value)
    \/ \E value \in GatewayCreatures : SaveThenLoad("creature", value)
    \/ \E value \in GatewayScores : SaveThenLoad("safety", value)

\* Each test starts on cleared storage.
GatewayInit == SessionInit /\ HarnessInit

SpecGateway == GatewayInit /\ [][GatewayNext]_vars

\* ------------------------------------------- storageService on failing storage

\* What the tests put under a key: nothing, text that is no JSON, JSON of
\* another shape, and the valid records of the three kinds.
RecoverTexts == StoredLogsTexts \cup StoredCreatureTexts \cup StoredSafetyTexts

\* The value the tests save for a kind of record.
RecoverValue(kind) ==
    CASE kind = "logs"     -> <<StoredLog>>
      [] kind = "creature" -> StoredCreature
      [] kind = "safety"   -> StoredScore

\* localStorage.setItem called by the test itself.
SetItem(key, text) ==
    /\ store' = [store EXCEPT ![key] = text]
    /\ trip' = [kind |-> "setItem", key |-> key]
    /\ UNCHANGED <<cur, prev, act>>
    /\ UNCHANGED <<isInitialized, logs, creatureState, safetyScore, rendered, inputValue,
                   lastError, nextId, failures, now, op, calls, start, hist>>

\* The three loads, the read of each returning or throwing.
LoadAll(reads) ==
    /\ trip' = [kind   |-> "load",
                reads  |-> reads,
                loaded |-> [logs     |-> loadLogs(store, reads[1]),
                            creature |-> loadCreatureState(store, reads[2]),
                            safety   |-> loadSafetyScore(store, reads[3])]]
    /\ UNCHANGED <<cur, prev, act>>
    /\ UNCHANGED sessionVars

\* One save, its write returning or throwing; before is what getLastError gave
\* before the save.
SaveOnce(kind, outcome) ==
    LET gw    == [store |-> store, lastError |-> lastError]
        saved == CASE kind = "logs"     -> saveLogs(gw, RecoverValue(kind), outcome)
                   [] kind = "creature" -> saveCreatureState(gw, RecoverValue(kind), outcome)
                   [] kind = "safety"   -> saveSafetyScore(gw, RecoverValue(kind), outcome)
    IN  /\ store' = saved.store
        /\ lastError' = saved.lastError
        /\ trip' = [kind |-> "save", record |-> kind, outcome |-> outcome,
                    result |-> saved.result, before |-> lastError]
        /\ UNCHANGED <<cur, prev, act>>
        /\ UNCHANGED <<isInitialized, logs, creatureState, safetyScore, rendered,
                       inputValue, nextId, failures, now, op, calls, start, hist>>

\* clearAll, removeItem removing the records of some keys and throwing for the
\* others, and the three loads after it.
ClearAllThenLoad(removed) ==
    /\ store' = clearAllRemoving(store, removed)
    /\ trip' = [kind    |-> "clearAll",
                removed |-> removed,
                before  |-> store,
                loaded  |-> [logs     |-> loadLogs(store', "ok"),
                             creature |-> loadCreatureState(store', "ok"),
                             safety   |-> loadSafetyScore(store', "ok")]]
    /\ UNCHANGED <<cur, prev, act>>
    /\ UNCHANGED <<isInitialized, logs, creatureState, safetyScore, rendered, inputValue,
                   lastError, nextId, failures, now, op, calls, start, hist>>

RecoverNext ==
    \/ \E key \in STORAGE_KEYS, text \in RecoverTexts : SetItem(key, text)
    \/ \E reads \in [1 .. 3 -> ReadOutcomes] : LoadAll(reads)
    \/ \E kind \in {"logs", "creature", "safety"}, outcome \in WriteOutcomes :
           SaveOnce(kind, outcome)
    \/ \E removed \in SUBSET STORAGE_KEYS : ClearAllThenLoad(removed)

SpecRecover == GatewayInit /\ [][RecoverNext]_vars

\* ------------------------------------------------------------------ claims

Ceiling == [brightness |-> 100, size |-> 100, animation |-> "celebrate"]

\* C1: from the default snapshot, after every step of any sequence of
\* expressed/suppressed actions, brightness and size are integers in [0,100].
C1_BoundedFromDefault ==
    /\ cur.brightness \in 0 .. 100
    /\ cur.size \in 0 .. 100

\* A sequence from the default snapshot in which an expressed action met the
\* brightness ceiling and the sum would have left the range.
C1_Witness ==
    /\ act = "expressed"
    /\ prev.brightness > 95
    /\ cur.brightness = 100

\* C2: an expressed action away from the ceiling adds exactly 5 to a
\* brightness in [0,95] and exactly 2 to a size in [0,98].
C2_ExpressedAddsDeltas ==
    act = "expressed" =>
        /\ prev.brightness \in 0 .. 95 => cur.brightness = prev.brightness + 5
        /\ prev.size \in 0 .. 98 => cur.size = prev.size + 2

C2_Witness ==
    /\ act = "expressed"
    /\ prev.brightness = 95 /\ cur.brightness = 100
    /\ prev.size = 0 /\ cur.size = 2

\* C3: a suppressed action away from the floor subtracts exactly 3 from a
\* brightness in [3,100] and exactly 1 from a size in [1,100].
C3_SuppressedSubtractsDeltas ==
    act = "suppressed" =>
        /\ prev.brightness \in 3 .. 100 => cur.brightness = prev.brightness - 3
        /\ prev.size \in 1 .. 100 => cur.size = prev.size - 1

C3_Witness ==
    /\ act = "suppressed"
    /\ prev.brightness = 3 /\ cur.brightness = 0
    /\ prev.size = 100 /\ cur.size = 99

\* C4: the transition saturates at the bounds: expressed from brightness
\* 96..100 gives exactly 100, suppressed from brightness 0..2 gives exactly 0,
\* expressed from size 99 or 100 gives 100, suppressed from size 0 gives 0.
C4_Saturates ==
    /\ (act = "expressed" /\ prev.brightness \in 96 .. 100) => cur.brightness = 100
    /\ (act = "expressed" /\ prev.brightness = 95) => cur.brightness = 100
    /\ (act = "suppressed" /\ prev.brightness \in 0 .. 2) => cur.brightness = 0
    /\ (act = "expressed" /\ prev.size \in 99 .. 100) => cur.size = 100
    /\ (act = "suppressed" /\ prev.size = 0) => cur.size = 0

C4_Witness ==
    /\ act = "suppressed"
    /\ prev.brightness = 2 /\ cur.brightness = 0
    /\ prev.size = 0 /\ cur.size = 0

\* C5: the returned animation is a function of the action and the resulting
\* brightness only: expressed and 100 gives celebrate, expressed below 100
\* gives grow, suppressed gives curl, whatever the prior animation and size.
C5_AnimationByActionAndResult ==
    /\ (act = "expressed" /\ cur.brightness = 100) => cur.animation = "celebrate"
    /\ (act = "expressed" /\ cur.brightness < 100) => cur.animation = "grow"
    /\ act = "suppressed" => cur.animation = "curl"

\* Expressed reaching 95 from a celebrating creature of another size: grow.
C5_Witness ==
    /\ act = "expressed"
    /\ prev.animation = "celebrate"
    /\ prev.size = 0
    /\ cur.brightness = 95
    /\ cur.animation = "grow"

\* C6: the transition has no error outcome: for any integer brightness and
\* size, below 0 and above 100 included, and either action, it returns a
\* CreatureState whose brightness and size are within [0,100].
C6_TotalAndClamped ==
    act \in Actions =>
        /\ cur \in [brightness : 0 .. 100, size : 0 .. 100, animation : Animations]
        /\ (prev.brightness < 0 /\ act = "suppressed") => cur.brightness = 0
        /\ prev.size > 100 => cur.size = 100

\* An input out of range on both sides.
C6_Witness ==
    /\ act = "suppressed"
    /\ prev.brightness > 100 /\ cur.brightness = 100
    /\ prev.size < 0 /\ cur.size = 0

\* C7: the ceiling is a fixed point of expressed: brightness 100 and size 100
\* plus expressed is {100,100,celebrate}, further expressed actions leave it
\* unchanged, and {95,98,grow} plus expressed reaches it.
C7_CeilingFixedPoint ==
    act = "expressed" =>
        /\ (prev.brightness = 100 /\ prev.size = 100) => cur = Ceiling
        /\ prev = Ceiling => cur = prev
        /\ prev = [brightness |-> 95, size |-> 98, animation |-> "grow"] => cur = Ceiling

\* A second expressed action at the ceiling.
C7_Witness ==
    /\ act = "expressed"
    /\ prev = Ceiling
    /\ cur = Ceiling

\* The number of expressed actions of a sequence of actions.
RECURSIVE NumExpressed(_)
NumExpressed(actions) ==
    IF actions = <<>>
    THEN 0
    ELSE (IF Head(actions) = "expressed" THEN 1 ELSE 0) + NumExpressed(Tail(actions))

\* The step is a click that was given to addLog.
AcceptedClick == op'.name = "handleAction" /\ op'.accepted

\* A text of blanks only.
Blank(text) == \A i \in 1 .. Len(text) : text[i] = " "

\* C8: every accepted expressed action increases the safety score by exactly
\* 1 and every accepted suppressed action leaves it unchanged, so from score 0
\* a sequence with e expressed and s suppressed actions ends with score e.
C8_ScoreAccounting ==
    /\ [][(AcceptedClick /\ op'.action = "expressed") => safetyScore' = safetyScore + 1]_vars
    /\ [][(AcceptedClick /\ op'.action = "suppressed") => safetyScore' = safetyScore]_vars
    /\ [](start.safetyScore = 0 => safetyScore = NumExpressed(hist))

\* A session that started at score 0 and took one action of each kind.
C8_Witness ==
    /\ start.safetyScore = 0
    /\ hist = <<"suppressed", "expressed">>
    /\ safetyScore = 1

\* C9: each accepted action replaces the creature snapshot with exactly
\* calculateNewState(current snapshot, action): from {50,50,idle} at score 0
\* one expressed gives {55,52,grow} and score 1, and a following suppressed
\* gives {52,51,curl} with the score still 1.
C9_SnapshotReplacedByTransition ==
    /\ [][AcceptedClick => creatureState' = calculateNewState(creatureState, op'.action)]_vars
    /\ []((start = [creatureState |-> getInitialState, safetyScore |-> 0]
            /\ hist = <<"expressed">>)
           => (/\ creatureState = [brightness |-> 55, size |-> 52, animation |-> "grow"]
               /\ safetyScore = 1))
    /\ []((start = [creatureState |-> getInitialState, safetyScore |-> 0]
            /\ hist = <<"expressed", "suppressed">>)
           => (/\ creatureState = [brightness |-> 52, size |-> 51, animation |-> "curl"]
               /\ safetyScore = 1))

\* The session after expressed and then suppressed from the default snapshot.
C9_Witness ==
    /\ start = [creatureState |-> getInitialState, safetyScore |-> 0]
    /\ hist = <<"expressed", "suppressed">>
    /\ op.name = "handleAction" /\ op.accepted
    /\ creatureState.brightness = 52

IsPrefix(s, t) == Len(s) <= Len(t) /\ SubSeq(t, 1, Len(s)) = s

\* C11: the log sequence is append-only between resets: each accepted action
\* makes it the previous sequence followed by one new entry with the given
\* text and action, and within a session no step other than clearLogs removes,
\* reorders or modifies an entry (a reload starts a new session).
C11_AppendOnly ==
    [][/\ AcceptedClick =>
            /\ Len(logs') = Len(logs) + 1
            /\ SubSeq(logs', 1, Len(logs)) = logs
            /\ logs'[Len(logs')].text = inputValue
            /\ logs'[Len(logs')].action = op'.action
       /\ op'.name \notin {"clearLogs", "reload"} => IsPrefix(logs, logs')]_vars

\* Two entries of different texts, the second appended by the last click.
C11_Witness ==
    /\ op.name = "handleAction" /\ op.accepted
    /\ Len(logs) = 2
    /\ logs[1].text = <<" ", "a">>
    /\ logs[2].text = Repeat("a", maxLength)
    /\ logs[1].action # logs[2].action

\* The in-memory logs, creature state and score of the session.
Memory == [logs |-> logs, creatureState |-> creatureState, safetyScore |-> safetyScore]

\* What the mount effect of a new session makes of the stored records.
Restored(st) ==
    [logs          |-> loadLogs(st, "ok"),
     creatureState |-> IF loadCreatureState(st, "ok") = Null
                       THEN getInitialState
                       ELSE loadCreatureState(st, "ok"),
     safetyScore   |-> loadSafetyScore(st, "ok")]

\* C12: when every save succeeds, the three persisted records equal the
\* in-memory logs, creature state and score when an accepted action returns;
\* so what a session holds when it ends is what the stored records restore,
\* and the mount effect of the next session sets exactly that.
C12_PersistedMirrorsMemory ==
    /\ [][(AcceptedClick /\ failures' = failures) =>
             /\ loadLogs(store', "ok") = logs'
             /\ loadCreatureState(store', "ok") = creatureState'
             /\ loadSafetyScore(store', "ok") = safetyScore']_vars
    /\ [][(op'.name = "reload" /\ failures = 0) =>
             (Restored(store') = Memory /\ store' = store)]_vars
    /\ [][op'.name = "initialize" => (Memory' = Restored(store) /\ store' = store)]_vars

\* A new session that restored two logs and a score of 1, no save having failed.
C12_Witness ==
    /\ op.name = "initialize"
    /\ failures = 0
    /\ Len(logs) = 2
    /\ safetyScore = 1
    /\ creatureState.animation # "idle"

\* C13: the mount effect sets each in-memory entity from its own record: a
\* record that is present and valid is loaded as stored, and a record that is
\* absent, not readable, no JSON or of the wrong shape gives the default
\* (no logs, {50,50,idle}, score 0), each record independently of the others.
C13_InitializePerRecord ==
    [][op'.name = "initialize" =>
         /\ logs' = IF /\ op'.reads[1] = "ok"
                       /\ store["emotionagotchi_logs"] = Stringify("array", <<StoredLog>>)
                    THEN <<StoredLog>>
                    ELSE <<>>
         /\ creatureState' =
                IF /\ op'.reads[2] = "ok"
                   /\ \E c \in StoredCreatures :
                          store["emotionagotchi_creature"] = Stringify("object", c)
                THEN CHOOSE c \in StoredCreatures :
                         store["emotionagotchi_creature"] = Stringify("object", c)
                ELSE getInitialState
         /\ safetyScore' =
                IF /\ op'.reads[3] = "ok"
                   /\ \E n \in StoredScores :
                          store["emotionagotchi_safety"] = Stringify("number", n)
                THEN CHOOSE n \in StoredScores :
                         store["emotionagotchi_safety"] = Stringify("number", n)
                ELSE 0]_vars

\* The logs record is of the wrong shape, the creature record is valid and the
\* read of the score throws: default logs, stored creature, default score.
C13_Witness ==
    /\ op.name = "initialize"
    /\ store["emotionagotchi_logs"] = OtherObject
    /\ store["emotionagotchi_creature"] = Stringify("object", StoredCreature)
    /\ store["emotionagotchi_safety"] = Stringify("number", StoredScore)
    /\ op.reads = <<"ok", "ok", "throws">>
    /\ logs = <<>>
    /\ creatureState = StoredCreature
    /\ safetyScore = 0

\* C14: the session is either uninitialized or ready; it becomes ready by the
\* mount effect only and stays ready until the page is loaded anew; while it is
\* uninitialized no consumer is rendered and nothing but the mount effect acts
\* on it (no addLog, no clearLogs).
C14_UninitializedThenReady ==
    /\ [](isInitialized \in BOOLEAN /\ rendered.children = isInitialized)
    /\ [][(~isInitialized /\ isInitialized') => op'.name = "initialize"]_vars
    /\ [][(isInitialized /\ ~isInitialized') => op'.name = "reload"]_vars
    /\ [][~isInitialized => (op'.name = "initialize" /\ isInitialized')]_vars
    /\ [][op'.name \in {"handleAction", "handleChange", "clearLogs"}
            => (isInitialized /\ isInitialized')]_vars

\* A second session became ready on the records the first one left.
C14_Witness ==
    /\ op.name = "initialize"
    /\ isInitialized
    /\ rendered.children
    /\ Len(logs) = 1

Defaults == [logs |-> <<>>, creatureState |-> getInitialState, safetyScore |-> 0]

C17_AllSavesAttempted ==
    [][AcceptedClick =>
         /\ Len(calls') = 3
         /\ \A name \in {"saveLogs", "saveCreatureState", "saveSafetyScore"} :
                \E i \in 1 .. 3 : calls'[i].name = name
         /\ \A i \in 1 .. 3 :
                LET key  == CASE calls'[i].name = "saveLogs" -> "emotionagotchi_logs"
                              [] calls'[i].name = "saveCreatureState" -> "emotionagotchi_creature"
                              [] calls'[i].name = "saveSafetyScore" -> "emotionagotchi_safety"
                    text == CASE calls'[i].name = "saveLogs" -> Stringify("array", logs')
                              [] calls'[i].name = "saveCreatureState" ->
                                     Stringify("object", creatureState')
                              [] calls'[i].name = "saveSafetyScore" ->
                                     Stringify("number", safetyScore')
                IN  store'[key] = IF calls'[i].threw THEN store[key] ELSE text
         /\ inputValue' = <<>>]_vars

\* The write of the logs threw; the creature state and the score are stored.
C17_Witness ==
    /\ op.name = "handleAction"
    /\ op.accepted
    /\ calls = <<Call("saveLogs", TRUE), Call("saveCreatureState", FALSE),
                 Call("saveSafetyScore", FALSE)>>
    /\ store["emotionagotchi_logs"] = Absent
    /\ store["emotionagotchi_creature"] = Stringify("object", creatureState)
    /\ store["emotionagotchi_safety"] = Stringify("number", safetyScore)

\* C18: when writes of an accepted action throw, any or all of the three, the
\* in-memory logs, creature state and score are those of the action all the
\* same (nothing is rolled back), the consumers are given them, and each save
\* was issued once (nothing is retried): a record whose write threw stays as it
\* was before.
C18_NoRollbackNoRetry ==
    [][(AcceptedClick /\ \E i \in 1 .. Len(calls') : calls'[i].threw) =>
         /\ Len(logs') = Len(logs) + 1
         /\ SubSeq(logs', 1, Len(logs)) = logs
         /\ logs'[Len(logs')].action = op'.action
         /\ logs'[Len(logs')].text = inputValue
         /\ creatureState' = calculateNewState(creatureState, op'.action)
         /\ safetyScore' = safetyScore + (IF op'.action = "expressed" THEN 1 ELSE 0)
         /\ rendered'.logs = logs'
         /\ rendered'.creatureState = creatureState'
         /\ rendered'.safetyScore = safetyScore'
         /\ \A name \in {"saveLogs", "saveCreatureState", "saveSafetyScore"} :
                Cardinality({i \in 1 .. Len(calls') : calls'[i].name = name}) = 1
         /\ calls'[1].threw => store'["emotionagotchi_logs"] = store["emotionagotchi_logs"]
         /\ lastError' # NoError]_vars

\* All three writes of the first action threw: the action is in memory, and
\* nothing is stored.
C18_Witness ==
    /\ op.name = "handleAction"
    /\ op.accepted
    /\ \A i \in 1 .. 3 : calls[i].threw
    /\ Len(logs) = 1
    /\ safetyScore = 1
    /\ creatureState = calculateNewState(getInitialState, "expressed")
    /\ \A key \in STORAGE_KEYS : store[key] = Absent
    /\ lastError # NoError

SaveNames == {"saveLogs", "saveCreatureState", "saveSafetyScore"}

\* C19: the handler of an accepted action issues saveLogs, then
\* saveCreatureState, then saveSafetyScore and nothing between them; no other
\* handler issues a save, so the writes of two actions never interleave.
C19_FixedWriteOrder ==
    /\ [][AcceptedClick =>
             [i \in 1 .. Len(calls') |-> calls'[i].name]
                = <<"saveLogs", "saveCreatureState", "saveSafetyScore">>]_vars
    /\ [][~AcceptedClick => \A i \in 1 .. Len(calls') : calls'[i].name \notin SaveNames]_vars

\* The second action of a session, its three saves in order.
C19_Witness ==
    /\ op.name = "handleAction"
    /\ op.accepted
    /\ Len(hist) = 2
    /\ calls = <<Call("saveLogs", FALSE), Call("saveCreatureState", FALSE),
                 Call("saveSafetyScore", FALSE)>>
    /\ Len(logs) = 2

\* C20: on working storage a save followed by the load of the same record
\* returns the value saved: the logs equal and in the same order, the creature
\* state equal, the score equal.
C20_RoundTrip ==
    trip.kind # "none" => trip.loaded = trip.saved

\* Two logs came back in the order saved, next to a stored score of two digits.
C20_Witness ==
    /\ trip.kind = "logs"
    /\ trip.saved = <<OtherLog, StoredLog>>
    /\ trip.loaded = <<OtherLog, StoredLog>>
    /\ store["emotionagotchi_safety"] = Stringify("number", 10)

Kinds == {"logs", "creature", "safety"}

KeyOf(kind) ==
    CASE kind = "logs"     -> "emotionagotchi_logs"
      [] kind = "creature" -> "emotionagotchi_creature"
      [] kind = "safety"   -> "emotionagotchi_safety"

ShapeOf(kind) ==
    CASE kind = "logs"     -> "array"
      [] kind = "creature" -> "object"
      [] kind = "safety"   -> "number"

\* The safe defaults of the loads: no logs, null, 0.
SafeDefault == [logs |-> <<>>, creature |-> Null, safety |-> 0]

\* The values of a kind of record that were stored by a save.
ValidValues(kind) ==
    CASE kind = "logs"     -> {<<StoredLog>>}
      [] kind = "creature" -> StoredCreatures
      [] kind = "safety"   -> StoredScores

ValidTexts(kind) == {Stringify(ShapeOf(kind), value) : value \in ValidValues(kind)}

StoredValue(kind, text) ==
    CHOOSE value \in ValidValues(kind) : Stringify(ShapeOf(kind), value) = text

\* A text under the key of a kind that is no record of that kind.
Malformed(kind, text) == text # Absent /\ text \notin ValidTexts(kind)

AllReadsOk == trip.reads = <<"ok", "ok", "ok">>

\* C21: when the text under the key of one record is malformed, the load of
\* that kind returns its safe default, and the loads of the other two kinds
\* return what is stored under their keys.
C21_CorruptionIsolated ==
    (trip.kind = "load" /\ AllReadsOk) =>
        \A kind \in Kinds :
            Malformed(kind, store[KeyOf(kind)]) =>
                /\ trip.loaded[kind] = SafeDefault[kind]
                /\ \A other \in Kinds \ {kind} :
                       store[KeyOf(other)] \in ValidTexts(other) =>
                           trip.loaded[other] = StoredValue(other, store[KeyOf(other)])

\* The logs record is no JSON: no logs are loaded, the creature state and the
\* score are loaded as stored.
C21_Witness ==
    /\ trip.kind = "load"
    /\ AllReadsOk
    /\ store["emotionagotchi_logs"] = Garbage
    /\ trip.loaded.logs = <<>>
    /\ trip.loaded.creature = StoredCreature
    /\ trip.loaded.safety = StoredScore

ReadOf(kind) ==
    CASE kind = "logs"     -> trip.reads[1]
      [] kind = "creature" -> trip.reads[2]
      [] kind = "safety"   -> trip.reads[3]

\* C22: a load returns its safe default (no logs, null, 0) whenever its read
\* throws, its record is absent, the text is no JSON, or the JSON is no record
\* of its kind (no array, an object without the creature's fields, no number).
C22_SafeDefaults ==
    trip.kind = "load" =>
        \A kind \in Kinds :
            (\/ ReadOf(kind) = "throws"
             \/ store[KeyOf(kind)] = Absent
             \/ store[KeyOf(kind)] = Garbage
             \/ (CanParse(store[KeyOf(kind)]) /\ store[KeyOf(kind)] \notin ValidTexts(kind)))
            => trip.loaded[kind] = SafeDefault[kind]

\* The read of the stored logs throws, the creature record is an object of
\* other fields, no score is stored: all three loads give their defaults.
C22_Witness ==
    /\ trip.kind = "load"
    /\ trip.reads = <<"throws", "ok", "ok">>
    /\ store["emotionagotchi_logs"] = Stringify("array", <<StoredLog>>)
    /\ store["emotionagotchi_creature"] = OtherObject
    /\ store["emotionagotchi_safety"] = Absent
    /\ trip.loaded = SafeDefault

\* C23: when the write underneath throws, for the quota or for another reason,
\* saveLogs, saveCreatureState and saveSafetyScore each return success false
\* with an error message, and getLastError gives that error afterwards.
C23_FailedSaveReported ==
    (trip.kind = "save" /\ trip.outcome # "ok") =>
        /\ trip.result.success = FALSE
        /\ trip.result.error # NoError
        /\ lastError = trip.result.error

\* saveSafetyScore on storage that is not available.
C23_Witness ==
    /\ trip.kind = "save"
    /\ trip.record = "safety"
    /\ trip.outcome = "error"
    /\ ~trip.result.success
    /\ lastError = "Failed to save data"
    /\ store["emotionagotchi_safety"] = Absent

\* The error messages that contain "Storage full".
StorageFullMessages == {"Storage full. Please clear some data."}

\* C24: a save that fails on the quota returns success false and a message
\* that contains "Storage full"; a save that fails for another reason returns
\* success false and a message that does not.
C24_QuotaDistinguishable ==
    trip.kind = "save" =>
        /\ trip.outcome = "quota" =>
               (~trip.result.success /\ trip.result.error \in StorageFullMessages)
        /\ trip.outcome = "error" =>
               (~trip.result.success /\ trip.result.error \notin StorageFullMessages)
        /\ trip.outcome = "ok" => trip.result.success

\* saveLogs hit the quota.
C24_Witness ==
    /\ trip.kind = "save"
    /\ trip.record = "logs"
    /\ trip.outcome = "quota"
    /\ trip.result = [success |-> FALSE, error |-> "Storage full. Please clear some data."]

\* C25: clearAll removes the three records whatever they hold, so that the
\* loads after it return no logs, null and 0; when removeItem throws, clearAll
\* returns all the same, the records it could not remove staying as they were.
C25_ClearAllRemoves ==
    trip.kind = "clearAll" =>
        /\ \A key \in STORAGE_KEYS :
               store[key] = IF key \in trip.removed THEN Absent ELSE trip.before[key]
        /\ trip.removed = STORAGE_KEYS =>
               /\ \A key \in STORAGE_KEYS : store[key] = Absent
               /\ trip.loaded = SafeDefault

\* clearAll on logs that are no JSON, a stored creature state and a score
\* record of another shape.
C25_Witness ==
    /\ trip.kind = "clearAll"
    /\ trip.removed = STORAGE_KEYS
    /\ trip.before["emotionagotchi_logs"] = Garbage
    /\ trip.before["emotionagotchi_creature"] = Stringify("object", StoredCreature)
    /\ trip.before["emotionagotchi_safety"] = OtherObject
    /\ trip.loaded = SafeDefault

\* C26: in every state of a ready session, directly after the mount effect
\* has loaded whatever is stored included, brightness and size of the
\* in-memory creature are within [0,100].
C26_CreatureInRange ==
    isInitialized =>
        /\ creatureState.brightness \in 0 .. 100
        /\ creatureState.size \in 0 .. 100

\* C27: the safety score is a natural number in every state of a ready
\* session, directly after the mount effect has loaded whatever is stored
\* included, and within a session only clearLogs makes it smaller.
C27_ScoreNonNegative ==
    /\ [](isInitialized => safetyScore \in Nat)
    /\ [][(isInitialized /\ isInitialized' /\ op'.name # "clearLogs")
            => safetyScore' >= safetyScore]_vars

\* The identifiers given to log entries so far, in this session or an earlier one.
Issued == 1 .. (nextId - 1)

\* C29: the identifiers of the entries of the log list are pairwise distinct
\* in every state, and a new entry gets an identifier that no entry was given
\* before, an entry that a reset has removed included.
C29_FreshIds ==
    /\ [](\A i, j \in 1 .. Len(logs) : i # j => logs[i].id # logs[j].id)
    /\ [](\A i \in 1 .. Len(logs) : logs[i].id \in Issued)
    /\ [][AcceptedClick => logs'[Len(logs')].id \notin Issued]_vars

\* The first entry after a reset that removed the entry with identifier 1.
C29_Witness ==
    /\ op.name = "handleAction"
    /\ op.accepted
    /\ hist = <<op.action>>
    /\ Len(logs) = 1
    /\ logs[1].id = 2
    /\ failures = 0

\* C30: the entries created in one session, the last Len(hist) of the list,
\* carry timestamps that do not decrease along the list.
C30_TimestampsNonDecreasing ==
    isInitialized =>
        \A i, j \in (Len(logs) - Len(hist) + 1) .. Len(logs) :
            i < j => logs[i].timestamp <= logs[j].timestamp

\* Two entries of one session, the clock having advanced between them.
C30_Witness ==
    /\ isInitialized
    /\ Len(hist) = 2
    /\ Len(logs) = 2
    /\ logs[1].timestamp < logs[2].timestamp

\* C31: useEmotion called in a component with no EmotionProvider above it
\* throws 'useEmotion must be used within an EmotionProvider' and returns no
\* session, whatever a provider elsewhere holds; below a provider that has
\* rendered its children it returns the provider's logs, creature and score.
C31_HookOutsideProviderThrows ==
    /\ []((trip.kind = "hook" /\ ~trip.provider) =>
             /\ trip.result.threw
             /\ trip.result.error = "useEmotion must be used within an EmotionProvider"
             /\ "value" \notin DOMAIN trip.result)
    /\ [][(trip' # trip /\ trip'.kind = "hook" /\ trip'.provider) =>
             /\ isInitialized
             /\ ~trip'.result.threw
             /\ trip'.result.value = [logs |-> logs, creatureState |-> creatureState,
                                      safetyScore |-> safetyScore]]_vars

\* The hook was called outside the provider while a session was ready on a
\* stored creature state.
C31_Witness ==
    /\ trip.kind = "hook"
    /\ ~trip.provider
    /\ trip.result.threw
    /\ isInitialized
    /\ creatureState = StoredCreature

C33_LogTextWithinLimits ==
    /\ [](Len(inputValue) <= maxLength)
    /\ [](\A i \in 1 .. Len(logs) :
              /\ Len(logs[i].text) \in 1 .. maxLength
              /\ Len(Trim(logs[i].text)) # 0)
    /\ [][op'.name = "handleChange" =>
             (Len(inputValue') <= maxLength /\ (~op'.accepted => inputValue' = inputValue))]_vars
    /\ [][AcceptedClick => (~Blank(inputValue) /\ logs'[Len(logs')].text = inputValue)]_vars

\* A text of 100 characters was logged, and a text of 101 characters typed
\* afterwards was not taken.
C33_Witness ==
    /\ op.name = "handleChange"
    /\ ~op.accepted
    /\ inputValue = <<>>
    /\ Len(logs) = 1
    /\ logs[1].text = Repeat("a", maxLength)

\* C34: the history view shows the entries it is given newest first: the items
\* are the entries of the list, each exactly once, in an order in which the
\* timestamps do not increase, and the list given is left in its order.
C34_HistoryNewestFirst ==
    trip.kind = "history" =>
        /\ Len(trip.view.sortedLogs) = Len(trip.logs)
        /\ \A i \in 1 .. Len(trip.logs) :
               Cardinality({j \in 1 .. Len(trip.view.sortedLogs) :
                               trip.view.sortedLogs[j] = trip.logs[i]}) = 1
        /\ \A i, j \in 1 .. Len(trip.view.sortedLogs) :
               i < j => trip.view.sortedLogs[i].timestamp >= trip.view.sortedLogs[j].timestamp
        /\ trip.view.props = trip.logs
        /\ trip.view.emptyState <=> trip.logs = <<>>

\* Four entries in neither order, two of them of the same timestamp.
C34_Witness ==
    /\ trip.kind = "history"
    /\ [i \in 1 .. Len(trip.logs) |-> trip.logs[i].timestamp] = <<1, 2, 0, 2>>
    /\ [i \in 1 .. Len(trip.view.sortedLogs) |-> trip.view.sortedLogs[i].timestamp]
           = <<2, 2, 1, 0>>
    /\ [i \in 1 .. Len(trip.view.sortedLogs) |-> trip.view.sortedLogs[i].id] = <<2, 4, 1, 3>>

\* C35: the last error is one slot for the three kinds of record: after a save
\* that failed, of whatever kind, getLastError gives the message of that save,
\* an earlier message of another failure being replaced; a save that succeeded
\* leaves the slot as it was, so that after any sequence of saves the slot
\* holds the message of the most recent failed one.
C35_LastErrorSingleSlot ==
    /\ [](trip.kind = "save" =>
             lastError = IF trip.result.success THEN trip.before ELSE trip.result.error)
    /\ [][(trip' # trip /\ trip'.kind = "save") => trip'.before = lastError]_vars
    /\ [](lastError \in {NoError} \cup {ErrorMessage(outcome) : outcome \in WriteOutcomes \ {"ok"}})

\* saveSafetyScore failed on storage that is not available, after an earlier
\* save had failed on the quota.
C35_Witness ==
    /\ trip.kind = "save"
    /\ trip.record = "safety"
    /\ trip.outcome = "error"
    /\ trip.before = "Storage full. Please clear some data."
    /\ lastError = "Failed to save data"

\* The load of a kind of record from the records st, its read returning.
LoadOf(kind, st) ==
    CASE kind = "logs"     -> loadLogs(st, "ok")
      [] kind = "creature" -> loadCreatureState(st, "ok")
      [] kind = "safety"   -> loadSafetyScore(st, "ok")

\* C39: a save of one kind, its write returning or throwing, leaves the
\* records under the keys of the other two kinds as they were, so that their
\* loads return afterwards what they returned before; a save that fails leaves
\* its own record too; the loads change no record.
C39_RecordsIndependent ==
    /\ [][trip'.kind = "save" =>
             /\ \A kind \in Kinds \ {trip'.record} :
                    /\ store'[KeyOf(kind)] = store[KeyOf(kind)]
                    /\ LoadOf(kind, store') = LoadOf(kind, store)
             /\ ~trip'.result.success => store' = store
             /\ trip'.result.success =>
                    LoadOf(trip'.record, store') = RecoverValue(trip'.record)]_vars
    /\ [][trip'.kind = "load" => store' = store]_vars

\* The creature state was saved next to stored logs and a score record that
\* is no JSON.
C39_Witness ==
    /\ trip.kind = "save"
    /\ trip.record = "creature"
    /\ trip.result.success
    /\ store["emotionagotchi_logs"] = Stringify("array", <<StoredLog>>)
    /\ store["emotionagotchi_creature"] = Stringify("object", StoredCreature)
    /\ store["emotionagotchi_safety"] = Garbage

\* The creature state after a sequence of actions from a given one.
RECURSIVE StateAfter(_, _)
StateAfter(state, actions) ==
    IF actions = <<>>
    THEN state
    ELSE StateAfter(calculateNewState(state, Head(actions)), Tail(actions))

\* C36: the creature state and the score of a ready session are a function of
\* the snapshot the session started from (loaded, default or reset) and of the
\* sequence of actions accepted since: two sessions of the same start and the
\* same sequence of actions hold the same creature state and score, whatever
\* texts were logged, whatever identifiers were given and whichever saves failed.
C36_DeterminedByTags ==
    isInitialized =>
        /\ creatureState = StateAfter(start.creatureState, hist)
        /\ safetyScore = start.safetyScore + NumExpressed(hist)

\* A session that started from a restored snapshot, with another text logged
\* and a save failed on the way.
C36_Witness ==
    /\ isInitialized
    /\ start.creatureState # getInitialState
    /\ hist = <<"expressed">>
    /\ failures = 1
    /\ Len(logs) = 2
    /\ logs[1].text # logs[2].text
    /\ creatureState = calculateNewState(start.creatureState, "expressed")

\* The number of entries of a log list whose action is expressed.
ExpressedEntries(list) == Cardinality({i \in 1 .. Len(list) : list[i].action = "expressed"})

C38_AnimationConsistent ==
    /\ [][AcceptedClick =>
             /\ creatureState'.animation # "idle"
             /\ creatureState'.animation = "celebrate" => creatureState'.brightness = 100
             /\ creatureState'.animation = "grow" => creatureState'.brightness \in 5 .. 99
             /\ (op'.action = "expressed" /\ creatureState'.brightness = 100)
                    => creatureState'.animation = "celebrate"]_vars
    /\ []((isInitialized /\ creatureState.animation = "idle")
             => (hist = <<>> /\ creatureState = start.creatureState))

\* C40: the mount effect always completes: a session that is not ready becomes
\* ready, whatever the three stored records hold and whether the reads return
\* or throw; the effect can run on every combination of read outcomes, and it
\* leaves a list of logs, a creature state and a number as score, the defaults
\* when every read throws.
C40_InitializeCompletes ==
    /\ (~isInitialized) ~> isInitialized
    /\ [](~isInitialized =>
             \A reads \in [1 .. 3 -> ReadOutcomes] : ENABLED InitializeReading(reads))
    /\ [][op'.name = "initialize" =>
             /\ isInitialized'
             /\ DOMAIN logs' = 1 .. Len(logs')
             /\ DOMAIN creatureState' = {"brightness", "size", "animation"}
             /\ safetyScore' \in Int
             /\ (\A i \in 1 .. 3 : op'.reads[i] = "throws") => Memory' = Defaults]_vars

\* Every read threw on valid stored records: the session is ready on the
\* defaults.
C40_Witness ==
    /\ op.name = "initialize"
    /\ op.reads = <<"throws", "throws", "throws">>
    /\ store["emotionagotchi_logs"] = Stringify("array", <<StoredLog>>)
    /\ store["emotionagotchi_creature"] = Stringify("object", StoredCreature)
    /\ store["emotionagotchi_safety"] = Stringify("number", StoredScore)
    /\ isInitialized
    /\ Memory = Defaults

====
